---- MODULE Spec2Model ----
(***************************************************************************)
(* Model of the camera subprocess of multi-cam-sync:                       *)
(*   src/python/ipc_handler.py     the stdin dispatcher (main thread)      *)
(*   src/python/camera_manager.py  CameraManager and its capture thread    *)
(*                                                                         *)
(* The main thread handles one input line per action, except stop_capture  *)
(* (and disconnect of a capturing camera), which is split at the bounded   *)
(* join of the capture thread.  Every capture thread advances one          *)
(* statement group of _capture_loop per action.  Calls into the camera     *)
(* driver (pypylon) may raise; each handler draws the outcome of its       *)
(* driver calls from a small set.                                          *)
(***************************************************************************)
EXTENDS Integers, Sequences, FiniteSets, TLC

\* ---------------------------------------------------------------- bounds
MaxFrames == 2      \* frames one manager's counter may reach
MaxThreads == 2     \* capture threads that may exist at once
MaxManagers == 2    \* CameraManager objects that may exist at once
MaxLines == 5      \* input lines the dispatcher reads

Slots == 1..MaxManagers
Tids == 1..MaxThreads

None == "none"
IPs == {"ip1"}
Dirs == {"d1", "d2"}

VARIABLES
  PYLON_AVAILABLE,  \* camera_manager.py module flag
  camera,           \* IPCHandler.camera: 0 (None) or the slot of the manager
  mgrs,             \* slot -> the fields of a CameraManager object
  threads,          \* tid -> a capture thread: its position and its manager
  mainpc,           \* position of the main thread
  request,          \* the input line being handled (or last handled), its argument
  stdout,           \* lines the main thread printed for that line
  resp,             \* how its handler ended: the DATA payload, an exception, neither
  saved,            \* slot -> frame numbers of FRAME_SAVED lines of the session
  nlines,           \* input lines read so far
  gateway,          \* driver calls the main thread made on the handle for that line
  files,            \* slot -> frame numbers of the files written in the session
  loopout,          \* the line the step wrote, if it is a capture thread's
  e2e               \* progress of the run init, connect, start_capture, stop_capture

vars == <<PYLON_AVAILABLE, camera, mgrs, threads, mainpc, request, stdout, resp,
          saved, e2e, nlines, gateway, files, loopout>>

\* ------------------------------------------------------- objects at rest
\* CameraManager.__init__ ; the driver handle's own state (opened, grabbing)
\* is kept beside the reference to it.
NewManager(ip) ==
  [ camera |-> 0, cam_opened |-> FALSE, grabbing |-> FALSE,
    is_open |-> FALSE, is_capturing |-> FALSE, frame_count |-> 0,
    capture_thread |-> 0, capture_active |-> FALSE,
    output_dir |-> None, frame_callback |-> FALSE,
    camera_ip |-> ip, exposure_time |-> 8000, trigger_mode |-> "hardware" ]

NoThread == [pc |-> "done", mgr |-> 0, unreleased |-> 0]
NoResp == [kind |-> "none"]
Raised == [kind |-> "raised"]
Req(cmd, arg) == [cmd |-> cmd, arg |-> arg]
Off == [stage |-> "off", n |-> 0]

Alive(t) == threads[t].pc # "done"
LoopsOf(m) == {t \in Tids : Alive(t) /\ threads[t].mgr = m}

\* A pylon.InstantCamera(...) is a new object: it is not the one held before.
NewHandle(old) == IF old = 1 THEN 2 ELSE 1

\* protocol functions of ipc_handler.py and the prints of camera_manager.py
Line(kind, by) == [kind |-> kind, by |-> by]
send_status == Line("STATUS", "ipc")
send_error == Line("ERROR", "ipc")
command_error == Line("ERROR", "except")   \* send_error of an except clause
send_data == Line("DATA", "ipc")
send_preview == Line("PREVIEW", "ipc")
print_status == Line("STATUS", "mgr")
print_error == Line("ERROR", "mgr")
print_warning == Line("WARNING", "mgr")
send_frame_saved == Line("FRAME_SAVED", "loop")
loop_error == Line("ERROR", "loop")     \* print of the except clause of _capture_loop
loop_ended == Line("STATUS", "loop")    \* print after the while loop

Init ==
  /\ PYLON_AVAILABLE \in BOOLEAN
  /\ camera = 0
  /\ mgrs = [m \in Slots |-> NewManager(None)]
  /\ threads = [t \in Tids |-> NoThread]
  /\ mainpc = "ready"
  /\ request = Req(None, None)
  /\ stdout = <<send_status>>
  /\ resp = NoResp
  /\ saved = [m \in Slots |-> <<>>]
  /\ e2e = [stage |-> "begin", n |-> 0]
  /\ nlines = 0
  /\ gateway = {}
  /\ files = [m \in Slots |-> <<>>]
  /\ loopout = NoResp

\* A manager no reference reaches (not IPCHandler.camera, no running thread)
\* is garbage; its slot is handed out again by init.
Reachable(m, cam, ths) == m = cam \/ \E t \in Tids : ths[t].pc # "done" /\ ths[t].mgr = m
Collect(ms, cam, ths) ==
  [m \in Slots |-> IF Reachable(m, cam, ths) THEN ms[m] ELSE NewManager(None)]
CollectSaved(sv, cam, ths) ==
  [m \in Slots |-> IF Reachable(m, cam, ths) THEN sv[m] ELSE <<>>]

\* a Thread object not running and not referenced by any manager
FreeTid(t) == ~Alive(t) /\ \A m \in Slots : mgrs[m].capture_thread # t
\* threading.Thread(...): the first free one, 0 when MaxThreads exist already
NewThread ==
  IF \E t \in Tids : FreeTid(t)
  THEN CHOOSE t \in Tids : FreeTid(t) /\ \A k \in Tids : FreeTid(k) => t <= k
  ELSE 0

\* progress of the scripted run; any other line, or a fault, leaves the script
Script(from, to) == IF e2e.stage = from THEN [e2e EXCEPT !.stage = to] ELSE Off

\* ------------------------------------------------- CameraManager methods
\* Each method is an operator from the object (self), its arguments and the
\* outcome of its driver calls to the object afterwards, the lines it printed
\* and its return value (raised: the method ended in an exception).
Ret(self, lines, ret) ==
  [self |-> self, lines |-> lines, ret |-> ret, raised |-> FALSE, calls |-> {}]
Raise(self, lines) ==
  [self |-> self, lines |-> lines, ret |-> None, raised |-> TRUE, calls |-> {}]
\* the methods of self.camera (the pylon.InstantCamera) the method called
Calls(r, calls) == [r EXCEPT !.calls = calls]

ConnectFaults == {"none", "create", "open", "configure"}
\* _configure_camera: swallows a driver exception with a WARNING line
ConfigureCamera(self, fault) ==
  IF self.camera = 0 THEN <<>>
  ELSE IF fault = "configure" THEN <<print_warning>> ELSE <<print_status>>

connect(self, ip_address, fault) ==
  LET ip == IF ip_address # None THEN ip_address ELSE self.camera_ip IN
  IF ~PYLON_AVAILABLE THEN Ret(self, <<print_error>>, FALSE)
  ELSE IF ip = None THEN Ret(self, <<print_error>>, FALSE)
  ELSE IF fault = "create" THEN Ret(self, <<print_error>>, FALSE)
  ELSE LET created == [self EXCEPT !.camera = NewHandle(self.camera),
                                   !.cam_opened = FALSE, !.grabbing = FALSE] IN
       IF fault = "open" THEN Calls(Ret(created, <<print_error>>, FALSE), {"Open"})
       ELSE LET opened == [created EXCEPT !.cam_opened = TRUE] IN
            Calls(Ret([opened EXCEPT !.is_open = TRUE, !.camera_ip = ip],
                      ConfigureCamera(opened, fault) \o <<print_status>>, TRUE),
                  {"Open", "Configure"})

\* disconnect, after its stop_capture call: lines 162-171
CloseFaults == {"none", "raise"}
DisconnectWithoutFinally(self, fault) ==
  IF self.camera # 0 /\ self.is_open
  THEN IF fault = "raise"
       THEN Calls(Ret(self, <<print_error>>, None),
                  {"IsGrabbing"} \cup IF self.grabbing THEN {"StopGrabbing"} ELSE {"Close"})
       ELSE Calls(Ret([self EXCEPT !.is_open = FALSE, !.grabbing = FALSE,
                                   !.cam_opened = FALSE], <<print_status>>, None),
                  {"IsGrabbing", "Close"} \cup IF self.grabbing THEN {"StopGrabbing"} ELSE {})
  ELSE Ret(self, <<>>, None)
disconnect(self, fault) ==
  IF self.camera # 0 /\ self.is_open
  THEN IF fault = "raise"
       THEN Calls(Ret([self EXCEPT !.is_open = FALSE], <<print_error, print_status>>, None),
                  {"IsGrabbing"} \cup IF self.grabbing THEN {"StopGrabbing"} ELSE {"Close"})
       ELSE Calls(Ret([self EXCEPT !.is_open = FALSE, !.grabbing = FALSE,
                                   !.cam_opened = FALSE], <<print_status>>, None),
                  {"IsGrabbing", "Close"} \cup IF self.grabbing THEN {"StopGrabbing"} ELSE {})
  ELSE Ret(self, <<>>, None)

StartFaults == {"none", "mkdir", "trigger", "grab", "trigger_grab"}
\* the two checks that reject a start: lines 311-317
StartRejectedIfClosed(self) == ~self.is_open \/ self.camera = 0
StartRejected(self) == ~self.is_open \/ self.camera = 0 \/ self.is_capturing

start_capture(self, output_dir, fault, tid) ==
  IF StartRejected(self) THEN Ret(self, <<print_error>>, FALSE)
  ELSE LET s1 == [self EXCEPT !.output_dir = output_dir] IN
  IF fault = "mkdir" THEN Raise(s1, <<>>)
  ELSE LET s2 == [s1 EXCEPT !.frame_callback = TRUE, !.frame_count = 0]
           trig == fault \in {"trigger", "trigger_grab"}
           s3 == IF trig THEN s2 ELSE [s2 EXCEPT !.trigger_mode = "hardware"]
           l3 == IF trig THEN <<print_error>> ELSE <<print_status>> IN
  IF fault \in {"grab", "trigger_grab"}
  THEN Calls(Raise(s3, l3), {"Trigger", "StartGrabbing"})
  ELSE Calls(Ret([s3 EXCEPT !.grabbing = TRUE, !.cam_opened = TRUE,
                            !.capture_active = TRUE, !.capture_thread = tid,
                            !.is_capturing = TRUE],
                 l3 \o <<print_status>>, TRUE),
             {"Trigger", "StartGrabbing"})

\* stop_capture up to the join: lines 389-399
StopIdle(self) == ~self.is_capturing
NotCapturingKeepsCount(self) ==
  [success |-> FALSE, frame_count |-> self.frame_count, output_dir |-> "",
   error |-> "Not capturing"]
NotCapturing(self) ==
  [success |-> FALSE, frame_count |-> 0, output_dir |-> "", error |-> "Not capturing"]
stop_begin(self) == [self EXCEPT !.capture_active = FALSE]

\* stop_capture after the join: lines 404-424
StopFaults == {"none", "raise"}
StopResult(self) ==
  [success |-> TRUE, frame_count |-> self.frame_count,
   output_dir |-> IF self.output_dir # None THEN self.output_dir ELSE "", error |-> None]
stop_finish(self, fault) ==
  LET s1 == [self EXCEPT !.capture_thread = 0]
      calls == IF s1.camera = 0 THEN {}
               ELSE {"IsGrabbing"} \cup IF s1.grabbing THEN {"StopGrabbing"} ELSE {} IN
  IF s1.camera # 0 /\ fault = "raise" THEN Calls(Raise(s1, <<>>), calls)
  ELSE LET s2 == [s1 EXCEPT !.grabbing = FALSE, !.is_capturing = FALSE] IN
       Calls(Ret(s2, <<print_status>>, StopResult(s2)), calls)

get_status(self) ==
  [connected |-> self.is_open, capturing |-> self.is_capturing,
   frame_count |-> self.frame_count, trigger_mode |-> self.trigger_mode]

\* update_settings(**kwargs): kwargs is the sequence of the keys of the JSON
\* object "settings", in the order of the line; Value(key) is what the line
\* gives for the key, a number.
SettingsFields == {"exposure_time"}         \* fields of the CameraSettings dataclass
ObjectAttributes == {"__class__"}            \* an attribute any instance has
SettingsKeys == SettingsFields \cup ObjectAttributes \cup {"bogus"}
Value(key) == 5000
hasattr(key) == key \in SettingsFields \cup ObjectAttributes

\* setattr(self.settings, key, value): a field is stored; a __class__ that
\* is no class raises TypeError
setattr(st, key, value) ==
  CASE key \in SettingsFields -> [st EXCEPT !.self[key] = value]
    [] key = "__class__" -> [st EXCEPT !.raised = TRUE]

\* for key, value in kwargs.items(): if hasattr(...): setattr(...)
RECURSIVE MergeSettings(_, _)
MergeSettings(st, kwargs) ==
  IF kwargs = <<>> \/ st.raised THEN st
  ELSE LET key == Head(kwargs) IN
       MergeSettings(IF hasattr(key) THEN setattr(st, key, Value(key)) ELSE st,
                     Tail(kwargs))

\* if self.is_open and not self.is_capturing: line 448
Reconfigure(self) == self.is_open /\ ~self.is_capturing

ConfigureFaults == {"none", "configure"}
update_settings(self, kwargs, fault) ==
  LET merged == MergeSettings([self |-> self, raised |-> FALSE], kwargs)
      s1 == merged.self IN
  IF merged.raised THEN Raise(s1, <<>>)
  ELSE IF Reconfigure(s1)
  THEN Calls(Ret(s1, ConfigureCamera(s1, fault), None),
             IF s1.camera # 0 THEN {"Configure"} ELSE {})
  ELSE Ret(s1, <<>>, None)

\* grab_frame_base64 (with grab_frame): the data URI, or None
PreviewFaults == {"none", "failed", "finally", "failed_finally"}
grab_frame_base64(self, fault) ==
  IF ~self.is_open \/ self.camera = 0 THEN Ret(self, <<print_error>>, None)
  ELSE LET stopped == [self EXCEPT !.grabbing = FALSE]
           calls == {"StartGrabbingMax", "RetrieveResult", "IsGrabbing", "StopGrabbing"} IN
       CASE fault = "none" -> Calls(Ret(stopped, <<>>, "data_uri"), calls)
         [] fault = "failed" -> Calls(Ret(stopped, <<print_error>>, None), calls)
         [] fault = "finally" -> Calls(Raise(self, <<>>), calls)
         [] fault = "failed_finally" -> Calls(Raise(self, <<print_error>>), calls)

\* ------------------------------------------------------------- CameraInfo
\* camera_types.py: the dataclass fields that make the friendly name
CameraInfo(ip_address, model_name, user_defined_name, friendly_name) ==
  [kind |-> "CameraInfo", ip_address |-> ip_address, model_name |-> model_name,
   user_defined_name |-> user_defined_name, friendly_name |-> friendly_name]

\* CameraInfo.__post_init__
FriendlyNameWithoutUser(info) == info.model_name \o " (" \o info.ip_address \o ")"
FriendlyName(info) ==
  IF info.user_defined_name # ""
  THEN info.user_defined_name \o " - " \o info.model_name \o " (" \o info.ip_address \o ")"
  ELSE info.model_name \o " (" \o info.ip_address \o ")"
post_init(info) ==
  IF info.friendly_name = "" THEN [info EXCEPT !.friendly_name = FriendlyName(info)]
  ELSE info

\* ---------------------------------------------------------- capture thread
\* _capture_loop, one thread t of manager m == threads[t].mgr; self is read
\* afresh at every statement, as the attributes are in the source.
\* threads[t].unreleased counts the grab results the loop holds unreleased.
At(t, pc) == mainpc # "exited" /\ threads[t].pc = pc
Goto(t, pc) == [threads EXCEPT ![t].pc = pc]

\* while self._capture_active.is_set()
LoopContinuesWhileGrabbing(self) == self.capture_active /\ self.grabbing
LoopContinues(self) == self.capture_active

\* the loop condition; after the loop the thread prints a STATUS line and ends
LoopCheck(t) ==
  /\ At(t, "check")
  /\ LET m == threads[t].mgr
         continues == LoopContinues(mgrs[m])
         ths == IF continues THEN Goto(t, "retrieve")
                ELSE [threads EXCEPT ![t] = NoThread] IN
     /\ threads' = ths
     /\ loopout' = IF continues THEN NoResp ELSE loop_ended
     /\ mgrs' = Collect(mgrs, camera, ths)
     /\ saved' = CollectSaved(saved, camera, ths)
     /\ files' = CollectSaved(files, camera, ths)
  /\ UNCHANGED <<PYLON_AVAILABLE, camera, mainpc, request, stdout, resp, e2e, nlines,
                 gateway>>

NextFrameCount(n) == n + 1
RetrieveOutcomes == {"frame", "timeout", "failed", "raise"}

\* except Exception: the ERROR line, unless the stop flag is already cleared
ExceptClause(self) == IF self.capture_active THEN loop_error ELSE NoResp

\* grab_result = RetrieveResult(1000, TimeoutHandling_Return): a frame (and
\* the increment), no result within the timeout, a result whose grab did not
\* succeed, or an exception.  Binding grab_result drops the result held before.
LoopRetrieve(t) ==
  /\ At(t, "retrieve")
  /\ LET m == threads[t].mgr
         scripted == m = camera /\ e2e.stage = "capturing" IN
     \E outcome \in RetrieveOutcomes :
       CASE outcome = "frame" ->
              /\ mgrs[m].grabbing /\ mgrs[m].camera # 0
              /\ mgrs[m].frame_count < MaxFrames
              /\ mgrs' = [mgrs EXCEPT ![m].frame_count = NextFrameCount(@)]
              /\ threads' = [threads EXCEPT ![t].pc = "save", ![t].unreleased = 1]
              /\ e2e' = IF scripted THEN [e2e EXCEPT !.n = @ + 1] ELSE e2e
              /\ loopout' = NoResp
         [] outcome = "timeout" ->
              /\ threads' = [threads EXCEPT ![t].pc = "check", ![t].unreleased = 0]
              /\ loopout' = NoResp
              /\ UNCHANGED <<mgrs, e2e>>
         [] outcome = "failed" ->
              /\ mgrs[m].grabbing /\ mgrs[m].camera # 0
              /\ threads' = [threads EXCEPT ![t].pc = "check", ![t].unreleased = 1]
              /\ e2e' = IF scripted THEN Off ELSE e2e
              /\ loopout' = NoResp
              /\ UNCHANGED mgrs
         [] outcome = "raise" ->
              /\ threads' = Goto(t, "check")
              /\ e2e' = IF scripted THEN Off ELSE e2e
              /\ loopout' = ExceptClause(mgrs[m])
              /\ UNCHANGED mgrs
  /\ UNCHANGED <<PYLON_AVAILABLE, camera, mainpc, request, stdout, resp, saved, nlines,
                 gateway, files>>

\* file_path = self._output_dir / f"{self.frame_count:06d}.png"
FileNumber(self) == self.frame_count

\* Image.fromarray(...); img.save(file_path): may raise, into the except clause
LoopSave(t) ==
  /\ At(t, "save")
  /\ LET m == threads[t].mgr IN
     \E ok \in BOOLEAN :
       /\ threads' = Goto(t, IF ok THEN "notify" ELSE "check")
       /\ loopout' = IF ok THEN NoResp ELSE ExceptClause(mgrs[m])
       /\ files' = IF ok THEN [files EXCEPT ![m] = Append(@, FileNumber(mgrs[m]))]
                   ELSE files
       /\ e2e' = IF ~ok /\ m = camera /\ e2e.stage = "capturing" THEN Off ELSE e2e
  /\ UNCHANGED <<PYLON_AVAILABLE, camera, mgrs, mainpc, request, stdout, resp, saved,
                 nlines, gateway>>

\* FrameInfo(frame_number=self.frame_count, ...)
FrameNumberZeroBased(self) == self.frame_count - 1
FrameNumber(self) == self.frame_count

\* the callback (send_frame_saved) and grab_result.Release()
LoopNotify(t) ==
  /\ At(t, "notify")
  /\ LET m == threads[t].mgr IN
       /\ saved' = IF mgrs[m].frame_callback
                   THEN [saved EXCEPT ![m] = Append(@, FrameNumber(mgrs[m]))]
                   ELSE saved
       /\ loopout' = IF mgrs[m].frame_callback THEN send_frame_saved ELSE NoResp
  /\ threads' = [threads EXCEPT ![t].pc = "check", ![t].unreleased = 0]
  /\ UNCHANGED <<PYLON_AVAILABLE, camera, mgrs, mainpc, request, stdout, resp, e2e,
                 nlines, gateway, files>>

\* ------------------------------------------------------------ dispatcher
\* What one handled line leaves behind: the lines printed and the payload
\* (a step of the main thread is no step of a capture thread).
Reply(req, lines, data) ==
  /\ request' = req
  /\ stdout' = lines
  /\ resp' = data
  /\ loopout' = NoResp

Data(fields) == [kind |-> "DATA"] @@ fields
\* for line in sys.stdin: the main thread takes the next line
ReadLine == mainpc = "ready" /\ nlines < MaxLines /\ nlines' = nlines + 1
Self == mgrs[camera]

\* ping, version
HandlePing ==
  /\ ReadLine
  /\ \E c \in {"ping", "version"} : Reply(Req(c, None), <<send_data>>, Data([command |-> c]))
  /\ e2e' = Off
  /\ gateway' = {}
  /\ UNCHANGED <<PYLON_AVAILABLE, camera, mgrs, threads, mainpc, saved, files>>

\* what EnumerateDevices reports of a device
UserNames == {"", "Left"}

\* detect_cameras: the mock entry, the enumeration, or its failure
HandleDetectCameras ==
  /\ ReadLine
  /\ IF ~PYLON_AVAILABLE
     THEN Reply(Req("detect_cameras", None), <<print_status, send_data>>,
                Data([count |-> 1,
                      cameras |-> <<post_init(CameraInfo("mock", "Mock Camera", "", ""))>>]))
     ELSE \E outcome \in {"found", "warning", "error"} :
            CASE outcome = "found" ->
                   \E name \in UserNames :
                     Reply(Req("detect_cameras", None), <<send_data>>,
                           Data([count |-> 1,
                                 cameras |-> <<post_init(CameraInfo("ip1", "Model-X", name, ""))>>]))
              [] outcome = "warning" ->
                   Reply(Req("detect_cameras", None), <<print_warning, send_data>>,
                         Data([count |-> 0, cameras |-> <<>>]))
              [] outcome = "error" ->
                   Reply(Req("detect_cameras", None), <<print_error, send_data>>,
                         Data([count |-> 0, cameras |-> <<>>]))
  /\ e2e' = Off
  /\ gateway' = {}
  /\ UNCHANGED <<PYLON_AVAILABLE, camera, mgrs, threads, mainpc, saved, files>>

\* init: a new CameraManager replaces IPCHandler.camera
HandleInit ==
  /\ ReadLine
  /\ \E ip \in IPs \cup {None} :
     \E m \in Slots :
        /\ ~Reachable(m, camera, threads)
        /\ \A k \in Slots : ~Reachable(k, camera, threads) => m <= k
        /\ camera' = m
        /\ mgrs' = Collect([mgrs EXCEPT ![m] = NewManager(ip)], m, threads)
        /\ saved' = CollectSaved(saved, m, threads)
        /\ files' = CollectSaved(files, m, threads)
  /\ Reply(Req("init", None), <<send_data>>, Data([success |-> TRUE]))
  /\ e2e' = Script("begin", "init")
  /\ gateway' = {}
  /\ UNCHANGED <<PYLON_AVAILABLE, threads, mainpc>>

\* handle_command's except clause: a raised handler ends in one send_error
AnswerDropsError(req, r, lines, data) ==
  IF r.raised THEN Reply(req, r.lines, Raised)
  ELSE Reply(req, r.lines \o lines, data)
AnswerBeforeRaise(req, r, lines, data) ==
  IF r.raised THEN Reply(req, r.lines \o lines \o <<command_error>>, Raised)
  ELSE Reply(req, r.lines \o lines, data)
Answer(req, r, lines, data) ==
  IF r.raised THEN Reply(req, r.lines \o <<command_error>>, Raised)
  ELSE Reply(req, r.lines \o lines, data)

HandleConnect ==
  /\ ReadLine
  /\ IF camera = 0
     THEN /\ Reply(Req("connect", None), <<send_error>>, NoResp)
          /\ e2e' = Off
          /\ gateway' = {}
          /\ UNCHANGED mgrs
     ELSE \E camera_ip \in IPs \cup {None}, fault \in ConnectFaults :
            LET r == connect(Self, camera_ip, fault) IN
            /\ mgrs' = [mgrs EXCEPT ![camera] = r.self]
            /\ gateway' = r.calls
            /\ Answer(Req("connect", camera_ip), r, <<send_data>>,
                      Data([success |-> r.ret, connected |-> r.ret]))
            /\ e2e' = IF r.ret THEN Script("init", "connected") ELSE Off
  /\ UNCHANGED <<PYLON_AVAILABLE, camera, threads, mainpc, saved, files>>

\* the "settings" objects of configure lines: none, one or two distinct keys
Kwargs ==
  {<<>>} \cup {<<k>> : k \in SettingsKeys}
         \cup {kw \in SettingsKeys \X SettingsKeys : kw[1] # kw[2]}

Keys(kwargs) == {kwargs[i] : i \in 1..Len(kwargs)}

HandleConfigure ==
  /\ ReadLine
  /\ IF camera = 0
     THEN /\ Reply(Req("configure", None), <<send_error>>, NoResp)
          /\ gateway' = {}
          /\ UNCHANGED mgrs
     ELSE \E kwargs \in Kwargs, fault \in ConfigureFaults :
            LET r == update_settings(Self, kwargs, fault) IN
            /\ fault # "none" => "Configure" \in r.calls
            /\ mgrs' = [mgrs EXCEPT ![camera] = r.self]
            /\ gateway' = r.calls
            /\ Answer(Req("configure", Keys(kwargs)), r, <<send_data>>,
                      Data([success |-> TRUE, configured |-> TRUE]))
  /\ e2e' = Off
  /\ UNCHANGED <<PYLON_AVAILABLE, camera, threads, mainpc, saved, files>>

HandleGetPreview ==
  /\ ReadLine
  /\ IF camera = 0 \/ ~Self.is_open
     THEN /\ Reply(Req("get_preview", None), <<send_error>>, NoResp)
          /\ gateway' = {}
          /\ UNCHANGED mgrs
     ELSE \E fault \in PreviewFaults :
            LET r == grab_frame_base64(Self, fault) IN
            /\ mgrs' = [mgrs EXCEPT ![camera] = r.self]
            /\ gateway' = r.calls
            /\ Answer(Req("get_preview", None), r,
                      IF r.ret # None THEN <<send_preview>> ELSE <<send_error>>, NoResp)
  /\ e2e' = Off
  /\ UNCHANGED <<PYLON_AVAILABLE, camera, threads, mainpc, saved, files>>

\* the two checks of _handle_start_capture: lines 177-184
StartRefusedIfNotConnected(output_dir) == camera = 0 \/ ~Self.is_open
StartRefused(output_dir) == camera = 0 \/ ~Self.is_open \/ output_dir = None

HandleStartCapture ==
  /\ ReadLine
  /\ \E output_dir \in Dirs \cup {None} :
       IF StartRefused(output_dir)
       THEN /\ Reply(Req("start_capture", output_dir), <<send_error>>, NoResp)
            /\ e2e' = Off
            /\ gateway' = {}
            /\ UNCHANGED <<mgrs, threads, saved, files>>
       ELSE \E fault \in StartFaults :
              LET tid == NewThread
                  r == start_capture(Self, output_dir, fault, tid)
                  started == ~r.raised /\ r.ret
                  session == ~StartRejected(Self) /\ fault # "mkdir" IN
              /\ started => tid # 0
              /\ mgrs' = [mgrs EXCEPT ![camera] = r.self]
              /\ threads' = IF started
                            THEN [threads EXCEPT ![tid] = [pc |-> "check", mgr |-> camera,
                                                           unreleased |-> 0]]
                            ELSE threads
              /\ saved' = IF session THEN [saved EXCEPT ![camera] = <<>>] ELSE saved
              /\ files' = IF session THEN [files EXCEPT ![camera] = <<>>] ELSE files
              /\ gateway' = r.calls
              /\ Answer(Req("start_capture", output_dir), r, <<send_data>>,
                        Data([success |-> r.ret, capturing |-> r.ret]))
              /\ e2e' = IF started THEN Script("connected", "capturing") ELSE Off
  /\ UNCHANGED <<PYLON_AVAILABLE, camera, mainpc>>

\* stop_capture: up to the join of the capture thread when a session runs
HandleStopCapture ==
  /\ ReadLine
  /\ IF camera = 0
     THEN /\ Reply(Req("stop_capture", None), <<send_error>>, NoResp)
          /\ e2e' = Off
          /\ UNCHANGED <<mgrs, mainpc>>
     ELSE IF StopIdle(Self)
     THEN /\ Reply(Req("stop_capture", None), <<send_data>>, Data(NotCapturing(Self)))
          /\ e2e' = Off
          /\ UNCHANGED <<mgrs, mainpc>>
     ELSE /\ mgrs' = [mgrs EXCEPT ![camera] = stop_begin(Self)]
          /\ mainpc' = "join_stop"
          /\ Reply(Req("stop_capture", None), <<>>, NoResp)
          /\ e2e' = Script("capturing", "capturing")
  /\ gateway' = {}
  /\ UNCHANGED <<PYLON_AVAILABLE, camera, threads, saved, files>>

\* disconnect: of a capturing camera, up to the join inside stop_capture
HandleDisconnect ==
  /\ ReadLine
  /\ IF camera = 0
     THEN /\ Reply(Req("disconnect", None), <<send_data>>, Data([success |-> TRUE, connected |-> FALSE]))
          /\ gateway' = {}
          /\ UNCHANGED <<mgrs, mainpc>>
     ELSE IF Self.is_capturing
     THEN /\ mgrs' = [mgrs EXCEPT ![camera] = stop_begin(Self)]
          /\ mainpc' = "join_disc"
          /\ gateway' = {}
          /\ Reply(Req("disconnect", None), <<>>, NoResp)
     ELSE \E fault \in CloseFaults :
            LET r == disconnect(Self, fault) IN
            /\ fault # "none" => r.calls # {}
            /\ mgrs' = [mgrs EXCEPT ![camera] = r.self]
            /\ gateway' = r.calls
            /\ Answer(Req("disconnect", None), r, <<send_data>>,
                      Data([success |-> TRUE, connected |-> FALSE]))
            /\ UNCHANGED mainpc
  /\ e2e' = Off
  /\ UNCHANGED <<PYLON_AVAILABLE, camera, threads, saved, files>>

\* self._capture_thread.join(timeout=2.0) returns, the thread ended or not,
\* and stop_capture runs to its end; for disconnect, the rest of disconnect.
JoinReturns ==
  /\ mainpc \in {"join_stop", "join_disc"}
  /\ \E fault \in StopFaults, close \in CloseFaults :
       LET r == stop_finish(Self, fault)
           d == disconnect(r.self, close) IN
       IF mainpc = "join_stop"
       THEN /\ close = "none"
            /\ mgrs' = [mgrs EXCEPT ![camera] = r.self]
            /\ gateway' = r.calls
            /\ Answer(Req("stop_capture", None), r, <<send_data>>, Data(r.ret))
            /\ e2e' = IF r.raised THEN Off ELSE Script("capturing", "stopped")
       ELSE /\ (r.raised \/ d.calls = {}) => close = "none"
            /\ mgrs' = [mgrs EXCEPT ![camera] = IF r.raised THEN r.self ELSE d.self]
            /\ gateway' = IF r.raised THEN r.calls ELSE r.calls \cup d.calls
            /\ IF r.raised
               THEN Answer(Req("disconnect", None), r, <<>>, NoResp)
               ELSE Reply(Req("disconnect", None), r.lines \o d.lines \o <<send_data>>,
                          Data([success |-> TRUE, connected |-> FALSE]))
            /\ e2e' = Off
  /\ mainpc' = "ready"
  /\ UNCHANGED <<PYLON_AVAILABLE, camera, threads, saved, nlines, files>>

HandleStatus ==
  /\ ReadLine
  /\ IF camera = 0
     THEN Reply(Req("status", None), <<send_data>>,
                Data([initialized |-> FALSE, connected |-> FALSE, capturing |-> FALSE]))
     ELSE Reply(Req("status", None), <<send_data>>, Data([initialized |-> TRUE] @@ get_status(Self)))
  /\ e2e' = Off
  /\ gateway' = {}
  /\ UNCHANGED <<PYLON_AVAILABLE, camera, mgrs, threads, mainpc, saved, files>>

\* a command no branch of handle_command names
HandleUnknown ==
  /\ ReadLine
  /\ Reply(Req("unknown", None), <<send_error>>, NoResp)
  /\ e2e' = Off
  /\ gateway' = {}
  /\ UNCHANGED <<PYLON_AVAILABLE, camera, mgrs, threads, mainpc, saved, files>>

\* run_ipc_loop: a blank line is skipped; a line that is not JSON, or JSON
\* that is no object (cmd.get raises), ends in one send_error
BadLine ==
  /\ ReadLine
  /\ \E kind \in {"blank", "malformed", "not_object"} :
       CASE kind = "blank" -> Reply(Req(kind, None), <<>>, NoResp)
         [] kind = "malformed" -> Reply(Req(kind, None), <<command_error>>, NoResp)
         [] kind = "not_object" -> Reply(Req(kind, None), <<command_error>>, Raised)
  /\ e2e' = Off
  /\ gateway' = {}
  /\ UNCHANGED <<PYLON_AVAILABLE, camera, mgrs, threads, mainpc, saved, files>>

\* The process exits: the capture threads are daemon threads and end with
\* it, wherever they are; the managers only they referred to are gone.
Exit ==
  /\ mainpc' = "exited"
  /\ threads' = [t \in Tids |-> NoThread]
  /\ mgrs' = Collect(mgrs, camera, threads')
  /\ saved' = CollectSaved(saved, camera, threads')
  /\ files' = CollectSaved(files, camera, threads')
  /\ e2e' = Off
  /\ gateway' = {}
  /\ UNCHANGED <<PYLON_AVAILABLE, camera, nlines>>

\* end of input: the for loop ends and run_ipc_loop returns
EndOfInput ==
  /\ mainpc = "ready"
  /\ Reply(Req("eof", None), <<>>, NoResp)
  /\ Exit

\* KeyboardInterrupt, also inside a handler blocked in the join
Interrupt ==
  /\ mainpc # "exited"
  /\ Reply(Req("interrupt", None), <<send_status>>, NoResp)
  /\ Exit

Next ==
  \/ HandlePing
  \/ HandleDetectCameras
  \/ HandleInit
  \/ HandleConnect
  \/ HandleDisconnect
  \/ HandleConfigure
  \/ HandleGetPreview
  \/ HandleStartCapture
  \/ HandleStopCapture
  \/ JoinReturns
  \/ HandleStatus
  \/ HandleUnknown
  \/ BadLine
  \/ EndOfInput
  \/ Interrupt
  \/ \E t \in Tids : LoopCheck(t)
  \/ \E t \in Tids : LoopRetrieve(t)
  \/ \E t \in Tids : LoopSave(t)
  \/ \E t \in Tids : LoopNotify(t)

Spec == Init /\ [][Next]_vars

\* The capture threads are scheduled fairly: a running thread takes its next
\* step (RetrieveResult returns within its timeout, save and the callback
\* return), and join(timeout=2.0) returns.  The input is under no obligation.
LoopStep(t) == LoopCheck(t) \/ LoopRetrieve(t) \/ LoopSave(t) \/ LoopNotify(t)
FairSpec ==
  Spec /\ WF_vars(JoinReturns) /\ \A t \in Tids : WF_vars(LoopStep(t))

\* ------------------------------------------- CameraInfo, on its own
\* The constructor applied to the values an enumeration may report: request
\* holds the arguments, resp the object after __post_init__.
InfoAddresses == {"10.0.0.5", "mock", ""}
InfoModels == {"Model-X", "Mock Camera", ""}
InfoUserNames == {"", "Left", "Cam 2"}
InfoFriendlyNames == {"", "Bench camera"}

InfoInit ==
  /\ PYLON_AVAILABLE = TRUE
  /\ camera = 0
  /\ mgrs = [m \in Slots |-> NewManager(None)]
  /\ threads = [t \in Tids |-> NoThread]
  /\ mainpc = "ready"
  /\ \E ip \in InfoAddresses, model \in InfoModels, user \in InfoUserNames,
        friendly \in InfoFriendlyNames :
       request = Req("CameraInfo", CameraInfo(ip, model, user, friendly))
  /\ stdout = <<>>
  /\ resp = NoResp
  /\ saved = [m \in Slots |-> <<>>]
  /\ e2e = Off
  /\ nlines = 0
  /\ gateway = {}
  /\ files = [m \in Slots |-> <<>>]
  /\ loopout = NoResp

Construct ==
  /\ resp = NoResp
  /\ resp' = post_init(request.arg)
  /\ UNCHANGED <<PYLON_AVAILABLE, camera, mgrs, threads, mainpc, request, stdout, saved,
                 e2e, nlines, gateway, files, loopout>>

InfoNext == Construct

InfoSpec == InfoInit /\ [][InfoNext]_vars

\* ---------------------------------------------------------------- claims
\* steps of the main thread
LineRead == nlines' = nlines + 1
Joining == mainpc \in {"join_stop", "join_disc"}
Handled(cmd) ==                 \* the handler of a cmd line runs to its end
  /\ request'.cmd = cmd /\ mainpc' = "ready"
  /\ LineRead \/ Joining
\* the same CameraManager object before and after the step
Kept(m) == Reachable(m, camera, threads) /\ Reachable(m, camera', threads')
\* a start_capture that returned True: is_capturing is set at line 340 only
Accepted(m) == ~mgrs[m].is_capturing /\ mgrs'[m].is_capturing
Errors(lines) == {i \in 1..Len(lines) : lines[i].kind = "ERROR"}
Responses(lines) == {i \in 1..Len(lines) : lines[i].by # "mgr"}
OneTo(n) == [k \in 1..n |-> k]
MidFrame(m) == \E t \in LoopsOf(m) : threads[t].pc \in {"save", "notify"}

\* C1: the frame counter of a manager is 0 right after each accepted
\* start_capture and never decreases in any other step.
C1_CounterResetAndMonotonic ==
  [][\A m \in Slots : Kept(m) =>
        IF Accepted(m) THEN mgrs'[m].frame_count = 0
        ELSE mgrs'[m].frame_count >= mgrs[m].frame_count]_vars

\* C2: within a session the k-th FRAME_SAVED carries frame number k.
C2_FrameNumbersSequential ==
  \A m \in Slots : \A k \in 1..Len(saved[m]) : saved[m][k] = k

\* C3: at most one acquisition loop is alive for a camera instance.
C3_OneLoopPerCamera ==
  \A m \in Slots : Cardinality(LoopsOf(m)) <= 1

\* C4: a start_capture (with an output directory) issued while a session is
\* running is answered success=false, capturing=false and changes neither the
\* manager (directory, counter, callback, stop flag) nor the threads.
C4_StartWhileRunningRejected ==
  [][(/\ Handled("start_capture") /\ camera # 0
      /\ request'.arg # None /\ mgrs[camera].is_capturing)
     => /\ resp' = Data([success |-> FALSE, capturing |-> FALSE])
        /\ mgrs' = mgrs /\ threads' = threads /\ saved' = saved]_vars

C4_Witness ==
  /\ mainpc = "ready" /\ request.cmd = "start_capture" /\ camera # 0
  /\ resp = Data([success |-> FALSE, capturing |-> FALSE])
  /\ mgrs[camera].is_capturing /\ LoopsOf(camera) # {}
  /\ mgrs[camera].frame_count > 0
  /\ mgrs[camera].output_dir # request.arg

\* C5 (as claimed): a stop_capture issued while no session is capturing is
\* always answered success=false, frame_count=0, "Not capturing" and changes
\* no state.
C5_StopIdleAlwaysNotCapturing ==
  [][(LineRead /\ request'.cmd = "stop_capture"
      /\ (camera = 0 \/ ~mgrs[camera].is_capturing))
     => /\ mainpc' = "ready"
        /\ resp' = Data([success |-> FALSE, frame_count |-> 0, output_dir |-> "",
                         error |-> "Not capturing"])
        /\ mgrs' = mgrs /\ threads' = threads /\ saved' = saved]_vars

\* C5 (amended): on an initialized camera that is not capturing, stop_capture
\* is answered success=false, frame_count=0, "Not capturing"; before init it
\* is answered by one ERROR line; in both cases no state changes.
C5_StopIdle ==
  [][(LineRead /\ request'.cmd = "stop_capture"
      /\ (camera = 0 \/ ~mgrs[camera].is_capturing))
     => /\ mainpc' = "ready"
        /\ IF camera = 0 THEN resp' = NoResp /\ stdout' = <<send_error>>
           ELSE /\ stdout' = <<send_data>>
                /\ resp' = Data([success |-> FALSE, frame_count |-> 0,
                                 output_dir |-> "", error |-> "Not capturing"])
        /\ mgrs' = mgrs /\ threads' = threads /\ saved' = saved
        /\ camera' = camera]_vars

C5_Witness ==
  /\ mainpc = "ready" /\ request.cmd = "stop_capture" /\ camera # 0
  /\ resp.kind = "DATA" /\ ~resp.success /\ resp.frame_count = 0
  /\ mgrs[camera].frame_count > 0 /\ mgrs[camera].is_open
  /\ mgrs[camera].output_dir # None

\* C6: in the run init, connect, start_capture, n frames delivered and
\* saved, stop_capture, the answer to stop_capture has success=true and
\* frame_count=n, and the FRAME_SAVED lines written before it carry 1..n.
C6_EndToEnd ==
  [][(e2e.stage = "capturing" /\ e2e'.stage = "stopped" /\ ~MidFrame(camera))
     => /\ resp'.success /\ resp'.frame_count = e2e.n
        /\ saved'[camera] = OneTo(e2e.n)]_vars

C6_Witness ==
  /\ e2e.stage = "stopped" /\ e2e.n = MaxFrames
  /\ resp.success /\ resp.frame_count = MaxFrames
  /\ saved[camera] = OneTo(MaxFrames)
  /\ LoopsOf(camera) = {}

\* a protocol error: a line that is not JSON, or names no known command
ProtocolError(req) == req.cmd \in {"malformed", "unknown"}

\* C7 (as claimed): a malformed line, an unknown command or a handler that
\* raises ends in exactly one ERROR line, leaves the dispatcher reading, and a
\* protocol error changes no capture state.
C7_ExactlyOneError ==
  [][((LineRead \/ Joining) /\ (ProtocolError(request') \/ resp' = Raised))
     => /\ mainpc' = "ready"
        /\ Cardinality(Errors(stdout')) = 1
        /\ ProtocolError(request') =>
             mgrs' = mgrs /\ threads' = threads /\ saved' = saved /\ camera' = camera]_vars

\* C7 (amended): a malformed line or an unknown command ends in exactly one
\* ERROR line and changes no capture state; a handler that raises ends in
\* exactly one ERROR line of the dispatcher, its last line, after the ERROR
\* lines the camera manager may have printed, and in no DATA or PREVIEW line;
\* in every case the dispatcher is back at reading the next line.
C7_ErrorReported ==
  [][((LineRead \/ Joining) /\ (ProtocolError(request') \/ resp' = Raised))
     => /\ mainpc' = "ready"
        /\ Responses(stdout') = {Len(stdout')}
        /\ stdout'[Len(stdout')].kind = "ERROR"
        /\ ProtocolError(request') =>
             /\ Len(stdout') = 1
             /\ mgrs' = mgrs /\ threads' = threads /\ saved' = saved /\ camera' = camera]_vars

C7_Witness ==
  /\ mainpc = "ready" /\ resp = Raised /\ request.cmd = "get_preview"
  /\ Cardinality(Errors(stdout)) = 2
  /\ nlines < MaxLines

\* C8 (as claimed): every request line is answered by exactly one line.
C8_ExactlyOneLine ==
  (mainpc = "ready" /\ request.cmd \notin {None, "blank"}) => Len(stdout) = 1

\* C8 (amended): every request line is answered by exactly one response of
\* the dispatcher (a DATA, PREVIEW or ERROR line), written last; before it the
\* camera manager may print STATUS, ERROR and WARNING lines of its own.
C8_ExactlyOneResponse ==
  (mainpc = "ready" /\ request.cmd \notin {None, "blank"})
  => /\ Responses(stdout) = {Len(stdout)}
     /\ stdout[Len(stdout)].kind \in {"DATA", "PREVIEW", "ERROR"}

C8_Witness ==
  /\ mainpc = "ready" /\ request.cmd = "connect" /\ resp.kind = "DATA"
  /\ ~resp.success /\ Len(stdout) = 2 /\ camera # 0 /\ mgrs[camera].is_capturing

\* C9: a connect that fails leaves the connected flag, the driver handle and
\* the stored address as they were.
C9_FailedConnectChangesNothing ==
  [][(Handled("connect") /\ camera # 0 /\ resp'.kind = "DATA" /\ ~resp'.success)
     => /\ mgrs'[camera].is_open = mgrs[camera].is_open
        /\ mgrs'[camera].camera = mgrs[camera].camera
        /\ mgrs'[camera].camera_ip = mgrs[camera].camera_ip]_vars

\* C10: disconnect is answered success=true, connected=false in every state,
\* and on a camera that is not connected it changes no state.
C10_DisconnectAlwaysSucceeds ==
  [][Handled("disconnect")
     => /\ resp' = Data([success |-> TRUE, connected |-> FALSE])
        /\ (camera = 0 \/ (~mgrs[camera].is_open /\ ~mgrs[camera].is_capturing))
             => mgrs' = mgrs /\ threads' = threads /\ saved' = saved]_vars

\* the process ends in this step
Exits == mainpc # "exited" /\ mainpc' = "exited"

\* C11: when the input ends or an interrupt arrives while a session is
\* capturing, the stop flag is cleared and the session is stopped before the
\* process exits.
C11_SessionStoppedAtExit ==
  [][(Exits /\ camera # 0 /\ mgrs[camera].is_capturing)
     => /\ ~mgrs'[camera].capture_active
        /\ ~mgrs'[camera].is_capturing]_vars

\* C12: a configure handled while the camera is capturing makes no call on
\* the driver handle; every configure handled while the camera is connected
\* (with a driver handle) and not capturing applies the settings to the handle.
C12_ConfigureOnlyWhenIdle ==
  [][(Handled("configure") /\ camera # 0)
     => /\ mgrs[camera].is_capturing => gateway' = {}
        /\ (mgrs[camera].is_open /\ mgrs[camera].camera # 0
            /\ ~mgrs[camera].is_capturing)
             => "Configure" \in gateway']_vars

\* C13: a configure naming a key that is no settings field leaves the stored
\* settings unchanged for that key, prints no ERROR line and is answered
\* success; the settings fields named in the same line are merged.
C13_UnknownFieldIgnored ==
  [][(Handled("configure") /\ camera # 0 /\ request'.arg \ SettingsFields # {})
     => /\ Errors(stdout') = {}
        /\ resp' = Data([success |-> TRUE, configured |-> TRUE])
        /\ mgrs'[camera].exposure_time =
             IF "exposure_time" \in request'.arg THEN Value("exposure_time")
             ELSE mgrs[camera].exposure_time]_vars

\* C14: a start_capture for a camera that is not initialized or not
\* connected, or without an output_dir, is answered by one ERROR line, makes
\* no call on the driver handle, changes no field of the manager (directory,
\* counter, stop flag, capturing flag) and starts no thread.
C14_StartRefusedTouchesNothing ==
  [][(Handled("start_capture")
      /\ (camera = 0 \/ ~mgrs[camera].is_open \/ request'.arg = None))
     => /\ stdout' = <<send_error>> /\ resp' = NoResp
        /\ gateway' = {}
        /\ mgrs' = mgrs /\ threads' = threads
        /\ saved' = saved /\ files' = files]_vars

C14_Witness ==
  /\ mainpc = "ready" /\ request = Req("start_capture", None) /\ camera # 0
  /\ stdout = <<send_error>> /\ gateway = {}
  /\ mgrs[camera].is_open /\ ~mgrs[camera].is_capturing
  /\ mgrs[camera].frame_count > 0 /\ mgrs[camera].output_dir # None

\* the five prefix tokens of the protocol
Prefixes == {"STATUS", "ERROR", "DATA", "PREVIEW", "FRAME_SAVED"}

\* C15: every line written, by the main thread or by a capture thread, begins
\* with one of the five prefix tokens.
C15_FivePrefixes ==
  /\ \A i \in 1..Len(stdout) : stdout[i].kind \in Prefixes
  /\ loopout # NoResp => loopout.kind \in Prefixes

\* C16: a CameraInfo constructed with an empty friendly name gets
\* "{user_name} - {model} ({address})" when the user-defined name is not
\* empty and "{model} ({address})" when it is.
C16_FriendlyName ==
  (resp.kind = "CameraInfo" /\ request.arg.friendly_name = "")
  => LET given == request.arg
         tail == given.model_name \o " (" \o given.ip_address \o ")" IN
     /\ given.user_defined_name # "" =>
          resp.friendly_name = given.user_defined_name \o " - " \o tail
     /\ given.user_defined_name = "" => resp.friendly_name = tail
     /\ resp = [given EXCEPT !.friendly_name = resp.friendly_name]

C16_Witness ==
  /\ request.arg = CameraInfo("10.0.0.5", "Model-X", "Left", "")
  /\ resp.kind = "CameraInfo"
  /\ resp.friendly_name = "Left - Model-X (10.0.0.5)"

\* the calls that close, reconfigure or stop grabbing on a handle
Mutating == {"Close", "Configure", "Trigger", "StopGrabbing"}

\* C17: no step of the main thread closes, reconfigures or stops grabbing on
\* the handle of a camera while a capture thread of that camera is alive.
C17_NoHandleTouchWhileLoopAlive ==
  [][((LineRead \/ Joining) /\ camera # 0 /\ LoopsOf(camera) # {})
     => gateway' \cap Mutating = {}]_vars

\* C18: at the start of every iteration of the loop (before the retrieval)
\* the loop holds no unreleased grab result.
C18_BuffersReleased ==
  \A t \in Tids : threads[t].pc = "retrieve" => threads[t].unreleased = 0

\* C19: a capture thread ends only in a step that finds the stop flag
\* cleared (or with the process); an iteration that brings no frame (timeout,
\* failed grab, exception) changes no field of the manager, no file and no
\* notification; no step of a capture thread changes the capturing flag or
\* the stop flag.
C19_GrabErrorsNeverEndSession ==
  [][\A t \in Tids : (Alive(t) /\ threads'[t] # threads[t] /\ ~Exits) =>
        LET m == threads[t].mgr IN
        /\ threads'[t].pc = "done" => ~mgrs[m].capture_active
        /\ (threads[t].pc = "retrieve" /\ threads'[t].pc = "check") =>
             mgrs'[m] = mgrs[m] /\ saved'[m] = saved[m] /\ files'[m] = files[m]
        /\ Kept(m) =>
             /\ mgrs'[m].is_capturing = mgrs[m].is_capturing
             /\ mgrs'[m].capture_active = mgrs[m].capture_active]_vars

C19_Witness ==
  \E t \in Tids :
    LET m == threads[t].mgr IN
    /\ threads[t].pc = "check" /\ loopout = loop_error
    /\ mgrs[m].is_capturing /\ mgrs[m].capture_active
    /\ mgrs[m].frame_count = MaxFrames /\ files[m] = <<>> /\ saved[m] = <<>>

\* C20: a stop_capture that found the camera capturing ends, the capture
\* thread ended or not, with the session idle and a result success=true that
\* carries the frame counter and the output directory, and the dispatcher
\* reads the next line.
C20_StopCompletes ==
  [][(mainpc = "join_stop" /\ mainpc' = "ready")
     => /\ resp'.kind = "DATA" /\ resp'.success
        /\ resp'.frame_count = mgrs'[camera].frame_count
        /\ resp'.output_dir = mgrs'[camera].output_dir
        /\ ~mgrs'[camera].is_capturing]_vars

\* C21: once the stop flag of a manager is cleared while a capture thread of
\* that manager is alive, that thread eventually ends, whatever lines the
\* dispatcher handles afterwards.
C21_LoopExitsAfterStop ==
  \A t \in Tids :
    (Alive(t) /\ ~mgrs[threads[t].mgr].capture_active) ~> ~Alive(t)

\* C22: the frame count in the result of a successful stop_capture is the
\* number of FRAME_SAVED notifications of the session, and while a manager
\* is not capturing its counter does not change and no FRAME_SAVED of it is
\* emitted, except in the step of the next accepted start_capture.
C22_ReportedCountFinal ==
  [][/\ (Handled("stop_capture") /\ resp'.kind = "DATA" /\ resp'.success)
          => resp'.frame_count = Len(saved'[camera])
     /\ \A m \in Slots :
          (Kept(m) /\ ~mgrs[m].is_capturing /\ ~Accepted(m))
            => /\ mgrs'[m].frame_count = mgrs[m].frame_count
               /\ saved'[m] = saved[m]]_vars

\* C23: a line other than stop_capture and disconnect, handled while the
\* dispatcher's camera is capturing, leaves the driver handle of the manager
\* the same object, leaves it grabbing as it was and calls no StopGrabbing.
C23_GrabbingKeptWhileRunning ==
  [][(/\ LineRead /\ camera # 0 /\ Kept(camera)
      /\ mgrs[camera].is_capturing
      /\ request'.cmd \notin {"stop_capture", "disconnect"})
     => /\ mgrs'[camera].camera = mgrs[camera].camera
        /\ mgrs'[camera].grabbing = mgrs[camera].grabbing
        /\ "StopGrabbing" \notin gateway']_vars

\* C24: every alive capture thread runs on the dispatcher's current manager,
\* and when the last line handled is a status answered capturing=false no
\* capture thread is alive.
C24_LoopsBelongToCurrentManager ==
  /\ \A t \in Tids : Alive(t) => threads[t].mgr = camera
  /\ (mainpc = "ready" /\ request.cmd = "status" /\ ~resp.capturing)
       => \A t \in Tids : ~Alive(t)

\* C25: whenever the dispatcher is about to read a line, a camera that is
\* capturing is connected; a status answer never carries capturing=true with
\* connected=false; after a disconnect that returned (answered DATA) the
\* camera is neither connected nor capturing.
C25_CapturingImpliesConnected ==
  [][/\ (mainpc' = "ready" /\ camera' # 0 /\ mgrs'[camera'].is_capturing)
          => mgrs'[camera'].is_open
     /\ (Handled("status") /\ resp'.capturing) => resp'.connected
     /\ (Handled("disconnect") /\ camera # 0 /\ resp'.kind = "DATA")
          => ~mgrs'[camera].is_open /\ ~mgrs'[camera].is_capturing]_vars

C25_Witness ==
  /\ mainpc = "ready" /\ request.cmd = "disconnect" /\ resp.kind = "DATA"
  /\ camera # 0 /\ ~mgrs[camera].is_open /\ ~mgrs[camera].is_capturing
  /\ mgrs[camera].frame_count > 0 /\ mgrs[camera].output_dir # None
  /\ "Close" \in gateway /\ LoopsOf(camera) # {}
====
